---- MODULE Spec2Model ----
(***************************************************************************)
(* A model of packages/jest-cli/src/SearchSource.js: the criteria compiled *)
(* by the constructor, the filtering pass with its per-criterion           *)
(* statistics, the explicit-file / pattern lookup, and the asynchronous    *)
(* changed-files selection.                                                *)
(*                                                                         *)
(* Strings are sequences of one-character strings, so that matching,       *)
(* escaping, joining and path resolution are computed character by         *)
(* character.  Regular expressions are the fragment the configuration and  *)
(* the inputs of the model use: literals, backslash escapes, alternation   *)
(* with "|", and an unclosed "(" as the one way a source fails to compile. *)
(* Input RegExp objects carry no flags (no "g"/"y", so test() is           *)
(* stateless); the platform is POSIX (path.sep = "/").                     *)
(***************************************************************************)
EXTENDS Integers, Sequences, FiniteSets, TLC

VARIABLES
    config,         \* this._config: testPathDirs, testRegex, testPathIgnorePatterns
    regexps,        \* this._testPathDirPattern, this._testRegex, this._testIgnorePattern
    hasteFiles,     \* this._hasteContext.hasteFS.getAllFiles()
    testPathCases,  \* this._testPathCases: the keys and the closure state of the instance
    candidates,     \* the candidate sequence the caller hands to the filtering pass
    lastCall,       \* the last completed synchronous operation, its arguments and result
    adHocSeen,      \* history: some earlier call supplied a truthy ad-hoc pattern
    calls,          \* collaborator calls made by the current top-level operation
    pc,             \* findChangedTests: idle, detecting, fetching, resolved, rejected
    request,        \* the PatternInfo / Options findChangedTests was started with
    gitQ,           \* per root: status of git.isGitRepository(root)
    hgQ,            \* per root: status of hg.isHGRepository(root)
    chgQ,           \* per root: the findChangedFiles query
    outcome         \* what the returned promise settled with

vars == <<config, regexps, hasteFiles, testPathCases, candidates, lastCall, adHocSeen,
          calls, pc, request, gitQ, hgQ, chgQ, outcome>>

syncVars == <<testPathCases, candidates, lastCall, adHocSeen>>
asyncVars == <<pc, request, gitQ, hgQ, chgQ, outcome>>

-----------------------------------------------------------------------------
(* Bounds of the model.                                                    *)

MaxCand == 2
MaxRoots == 2

-----------------------------------------------------------------------------
(* Strings.                                                                *)

RECURSIVE Join(_, _)
Join(parts, sep) ==
    IF parts = <<>> THEN <<>>
    ELSE IF Len(parts) = 1 THEN parts[1]
    ELSE parts[1] \o sep \o Join(Tail(parts), sep)

Contains(s, a) ==
    \E i \in 0..(Len(s) - Len(a)) : SubSeq(s, i + 1, i + Len(a)) = a

Range(s) == {s[i] : i \in DOMAIN s}

SeqsUpTo(S, n) == UNION {[1..k -> S] : k \in 0..n}

PathSep == "/"

\* The characters escapeStrForRegex puts a backslash before (those of the model).
RegexSpecial == {"/", "(", "|", "\\"}

RECURSIVE EscapeStrForRegex(_)
EscapeStrForRegex(s) ==
    IF s = <<>> THEN <<>>
    ELSE (IF Head(s) \in RegexSpecial THEN <<"\\", Head(s)>> ELSE <<Head(s)>>)
         \o EscapeStrForRegex(Tail(s))

RECURSIVE ReplacePathSepForRegex(_)
ReplacePathSepForRegex(s) ==
    IF PathSep = "\\"
    THEN IF s = <<>> THEN <<>>
         ELSE (IF Head(s) \in {"/", "\\"} THEN <<"\\", "\\">> ELSE <<Head(s)>>)
              \o ReplacePathSepForRegex(Tail(s))
    ELSE s

EscapePathForRegex(dir) == ReplacePathSepForRegex(EscapeStrForRegex(dir))

pathToRegex(p) == ReplacePathSepForRegex(p)

-----------------------------------------------------------------------------
(* new RegExp(source) and RegExp.prototype.test.                           *)

RECURSIVE Tokens(_)
Tokens(src) ==
    IF src = <<>> THEN <<>>
    ELSE IF Head(src) = "\\"
         THEN IF Len(src) = 1 THEN <<"BAD">>
              ELSE <<src[2]>> \o Tokens(Tail(Tail(src)))
    ELSE IF Head(src) = "|" THEN <<"ALT">> \o Tokens(Tail(src))
    ELSE IF Head(src) = "(" THEN <<"BAD">> \o Tokens(Tail(src))
    ELSE <<Head(src)>> \o Tokens(Tail(src))

RECURSIVE SplitAlt(_, _)
SplitAlt(toks, cur) ==
    IF toks = <<>> THEN <<cur>>
    ELSE IF Head(toks) = "ALT" THEN <<cur>> \o SplitAlt(Tail(toks), <<>>)
    ELSE SplitAlt(Tail(toks), Append(cur, Head(toks)))

\* new RegExp(src): the alternatives of the source; it throws a SyntaxError
\* iff valid is FALSE.
RegExpCompile(src) ==
    [valid |-> "BAD" \notin Range(Tokens(src)),
     alts |-> SplitAlt(Tokens(src), <<>>)]

RegExpValid(src) == RegExpCompile(src).valid

\* regex.test(p)
RegExpTest(regex, p) == \E i \in DOMAIN regex.alts : Contains(p, regex.alts[i])

-----------------------------------------------------------------------------
(* The constructor.                                                        *)

TestPathDirPattern(cfg) ==
    RegExpCompile(Join([i \in DOMAIN cfg.testPathDirs |->
                           EscapePathForRegex(cfg.testPathDirs[i])], <<"|">>))

TestRegex(cfg) == RegExpCompile(pathToRegex(cfg.testRegex))

TestIgnorePattern(cfg) ==
    LET ignorePattern == cfg.testPathIgnorePatterns
    IN IF Len(ignorePattern) # 0
       THEN [isNull |-> FALSE, regex |-> RegExpCompile(Join(ignorePattern, <<"|">>))]
       ELSE [isNull |-> TRUE, regex |-> RegExpCompile(<<>>)]

ConstructedRegexps(cfg) ==
    [testPathDirPattern |-> TestPathDirPattern(cfg),
     testRegex |-> TestRegex(cfg),
     testIgnorePattern |-> TestIgnorePattern(cfg)]

FixedKeys == <<"testPathDirs", "testRegex", "testPathIgnorePatterns">>

ConstructedCases == [keys |-> FixedKeys, regex |-> RegExpCompile(<<>>)]

\* testCases[key](path), for the closures of the constructor and of the pass.
TestCase(cases, key, p) ==
    CASE key = "testPathDirs" -> RegExpTest(regexps.testPathDirPattern, p)
      [] key = "testRegex" -> RegExpTest(regexps.testRegex, p)
      [] key = "testPathIgnorePatterns" ->
            \/ regexps.testIgnorePattern.isNull
            \/ ~RegExpTest(regexps.testIgnorePattern.regex, p)
      [] key = "testPathPattern" -> RegExpTest(cases.regex, p)

-----------------------------------------------------------------------------
(* Patterns and results.                                                   *)

Undefined == [kind |-> "undefined", src |-> <<>>]
Str(s) == [kind |-> "string", src |-> s]
Re(s) == [kind |-> "regexp", src |-> s]

\* JavaScript truthiness of a StrOrRegExpPattern.
Truthy(pat) == pat.kind = "regexp" \/ (pat.kind = "string" /\ pat.src # <<>>)

NoStats == <<>>

NoError == [q |-> "", root |-> 0]

SyntaxError == [q |-> "SyntaxError", root |-> 0]

Threw(err) ==
    [kind |-> "threw", error |-> err, paths |-> <<>>, hasStats |-> FALSE,
     stats |-> NoStats, hasTotal |-> FALSE, total |-> 0, noSCM |-> FALSE]

PathsOnly(ps) ==
    [kind |-> "result", error |-> NoError, paths |-> ps, hasStats |-> FALSE,
     stats |-> NoStats, hasTotal |-> FALSE, total |-> 0, noSCM |-> FALSE]

NoSCMResult == [PathsOnly(<<>>) EXCEPT !.noSCM = TRUE]

NoResult ==
    [kind |-> "none", error |-> NoError, paths |-> <<>>, hasStats |-> FALSE,
     stats |-> NoStats, hasTotal |-> FALSE, total |-> 0, noSCM |-> FALSE]

-----------------------------------------------------------------------------
(* _filterTestPathsWithStats.                                              *)

\* stats: {} of the fresh data object.
CarriedStats == lastCall.result.stats

FreshStats == NoStats

\* Object.assign({}, this._testPathCases), plus the ad-hoc criterion.
ActiveCases(pat) ==
    IF Truthy(pat)
    THEN [keys |-> IF "testPathPattern" \in Range(testPathCases.keys)
                   THEN testPathCases.keys
                   ELSE Append(testPathCases.keys, "testPathPattern"),
          regex |-> RegExpCompile(pat.src)]
    ELSE testPathCases

\* What the pass leaves in this._testPathCases: it works on a copy.
AliasedInstanceCases(pat) == ActiveCases(pat)

InstanceCasesAfter(pat) == testPathCases

\* data.stats[key] = ++data.stats[key] || 1
Incremented(stats, key) ==
    [k \in (DOMAIN stats) \cup {key} |->
        IF k = key THEN (IF key \in DOMAIN stats THEN stats[key] + 1 ELSE 1)
        ELSE stats[k]]

\* data.stats[key] = data.stats[key] || 0
Touched(stats, key) ==
    [k \in (DOMAIN stats) \cup {key} |->
        IF k = key THEN (IF key \in DOMAIN stats THEN stats[key] ELSE 0)
        ELSE stats[k]]

ReduceStepShortCircuit(acc, key, p, cases) ==
    IF ~acc.flag THEN acc
    ELSE IF TestCase(cases, key, p)
         THEN [flag |-> TRUE, stats |-> Incremented(acc.stats, key)]
         ELSE [flag |-> FALSE, stats |-> Touched(acc.stats, key)]

ReduceStepLastWins(acc, key, p, cases) ==
    IF TestCase(cases, key, p)
    THEN [flag |-> TRUE, stats |-> Incremented(acc.stats, key)]
    ELSE [flag |-> FALSE, stats |-> Touched(acc.stats, key)]

\* The callback of Object.keys(testCases).reduce(..., true).
ReduceStep(acc, key, p, cases) ==
    IF TestCase(cases, key, p)
    THEN [flag |-> acc.flag /\ TRUE, stats |-> Incremented(acc.stats, key)]
    ELSE [flag |-> FALSE, stats |-> Touched(acc.stats, key)]

RECURSIVE ReduceKeys(_, _, _, _)
ReduceKeys(keys, acc, p, cases) ==
    IF keys = <<>> THEN acc
    ELSE ReduceKeys(Tail(keys), ReduceStep(acc, Head(keys), p, cases), p, cases)

\* allPaths.filter(path => ...)
RECURSIVE FilterPaths(_, _, _)
FilterPaths(allPaths, data, cases) ==
    IF allPaths = <<>> THEN data
    ELSE LET r == ReduceKeys(cases.keys, [flag |-> TRUE, stats |-> data.stats],
                             Head(allPaths), cases)
         IN FilterPaths(Tail(allPaths),
                        [data EXCEPT !.paths = IF r.flag
                                               THEN Append(@, Head(allPaths))
                                               ELSE @,
                                     !.stats = r.stats],
                        cases)

FilterTestPathsWithStats(allPaths, pat) ==
    IF Truthy(pat) /\ ~RegExpValid(pat.src)
    THEN Threw(SyntaxError)
    ELSE FilterPaths(allPaths,
                     [kind |-> "result", error |-> NoError, paths |-> <<>>,
                      hasStats |-> TRUE, stats |-> FreshStats,
                      hasTotal |-> TRUE, total |-> Len(allPaths),
                      noSCM |-> FALSE],
                     ActiveCases(pat))

-----------------------------------------------------------------------------
(* isTestFilePath, _getAllTestPaths, findMatchingTests.                    *)

IsTestFilePath(p) ==
    \A i \in DOMAIN testPathCases.keys :
        TestCase(testPathCases, testPathCases.keys[i], p)

GetAllTestPathsNoPattern(pat) == FilterTestPathsWithStats(hasteFiles, Undefined)

GetAllTestPaths(pat) == FilterTestPathsWithStats(hasteFiles, pat)

\* process.cwd()
Cwd == <<"/", "r">>

\* path.resolve(process.cwd(), p) for a non-empty p without "." or ".."
\* segments: an absolute p is the result, a relative one is appended to cwd.
PathResolve(p) == IF Head(p) = "/" THEN p ELSE Cwd \o <<"/">> \o p

FileRT == <<"/", "r", "/", "t">>
FileRTN == <<"/", "r", "/", "t", "n">>
FileRS == <<"/", "r", "/", "s">>
FileParenT == <<"/", "(", "/", "t">>
FileRM == <<"/", "r", "/", "m">>

\* Files the fs.accessSync fallback of jest-file-exists finds.
OnDisk == {FileRT, FileRTN, FileRS, FileParenT, FileRM}

FileExists(f) == f \in Range(hasteFiles) \/ f \in OnDisk

\* Whether findMatchingTests takes the explicit-file branch.
IsExplicitFile(pat) ==
    /\ Truthy(pat)
    /\ pat.kind # "regexp"
    /\ FileExists(PathResolve(pat.src))

FindMatchingTestsKeepPattern(pat) ==
    IF IsExplicitFile(pat)
    THEN FilterTestPathsWithStats(<<PathResolve(pat.src)>>, pat)
    ELSE GetAllTestPaths(pat)

FindMatchingTests(pat) ==
    IF IsExplicitFile(pat)
    THEN FilterTestPathsWithStats(<<PathResolve(pat.src)>>, Undefined)
    ELSE GetAllTestPaths(pat)

\* Collaborator calls of one findMatchingTests.
FindMatchingCalls(pat) ==
    [fileExists |-> IF Truthy(pat) /\ pat.kind # "regexp" THEN 1 ELSE 0,
     getAllFiles |-> IF IsExplicitFile(pat) THEN 0 ELSE 1,
     detections |-> 0, changedQueries |-> 0,
     resolveInverse |-> 0, resolveFailed |-> FALSE]

NoCalls ==
    [fileExists |-> 0, getAllFiles |-> 0, detections |-> 0, changedQueries |-> 0,
     resolveInverse |-> 0, resolveFailed |-> FALSE]

-----------------------------------------------------------------------------
(* findRelatedTests and the dependency resolver.                           *)

\* <<f, g>>: module f requires module g.
Requires == {<<FileRT, FileRS>>, <<FileRTN, FileRS>>, <<FileRS, FileRM>>}

RECURSIVE Dependents(_, _)
Dependents(files, n) ==
    IF n = 0 THEN files
    ELSE Dependents(files \cup {e[1] : e \in {d \in Requires : d[2] \in files}},
                    n - 1)

FileOrder == <<FileRT, FileRTN, FileRS, FileParenT, FileRM>>

\* dependencyResolver.resolveInverse(paths, filter, options); filter is the
\* predicate handed over, as the function of the files it is asked about.
ResolveInverse(paths, filter) ==
    LET related == Dependents(paths, Cardinality(Requires))
    IN SelectSeq(FileOrder, LAMBDA f : f \in related /\ filter[f])

\* this.isTestFilePath.bind(this)
BoundIsTestFilePath == [f \in Range(FileOrder) |-> IsTestFilePath(f)]

FindRelatedTests(allPaths) == PathsOnly(ResolveInverse(allPaths, BoundIsTestFilePath))

-----------------------------------------------------------------------------
(* Inputs.                                                                 *)

PathInputs == {FileRT, FileRTN, FileRS, FileParenT}

PatternInputs ==
    {Undefined, Str(<<>>), Str(<<"t">>), Str(<<"s">>), Str(<<"n">>),
     Str(<<"(">>), Re(<<"t">>)}

DirLists ==
    {<<>>, <<(<<"/", "r">>)>>, <<(<<"/", "(">>)>>, <<(<<"/", "r">>), (<<"/", "(">>)>>}

IgnoreLists == {<<>>, <<(<<"n">>)>>, <<(<<"m">>), (<<"n">>)>>}

FullUniverse == <<FileRT, FileRTN, FileRS, FileParenT>>

Universes == {<<>>, <<FileRS>>, FullUniverse}

Configs ==
    [testPathDirs : DirLists, testRegex : {<<"t">>},
     testPathIgnorePatterns : IgnoreLists]

RootNames == <<(<<"/", "r">>), (<<"/", "(">>), (<<"/", "q">>)>>

RootList(k) == [i \in 1..k |-> RootNames[((i - 1) % Len(RootNames)) + 1]]

ChangedConfigs ==
    {[testPathDirs |-> RootList(k), testRegex |-> <<"t">>,
      testPathIgnorePatterns |-> <<(<<"n">>)>>] : k \in 0..MaxRoots}

Requests ==
    [via : {"getTestPaths"}, onlyChanged : BOOLEAN,
     testPathPattern : {Undefined, Str(<<"s">>)}, lastCommit : BOOLEAN]

\* Requests of the pattern and empty modes; PatternInfo.testPathPattern is a string.
LookupRequests ==
    [via : {"getTestPaths"}, onlyChanged : {FALSE},
     testPathPattern : {pat \in PatternInputs : pat.kind # "regexp"},
     lastCommit : {FALSE}]

NoRequest ==
    [via |-> "", onlyChanged |-> FALSE, testPathPattern |-> Undefined,
     lastCommit |-> FALSE]

ChangedSets == {{}, {FileRS}, {FileRT, FileParenT}}

Roots == DOMAIN config.testPathDirs

NoCall ==
    [op |-> "none", req |-> NoRequest, cands |-> <<>>, pat |-> Undefined, path |-> <<>>,
     value |-> FALSE, result |-> NoResult, second |-> NoResult]

NoQuery == [status |-> "none", scm |-> "none", lastCommit |-> FALSE, files |-> {}]

-----------------------------------------------------------------------------
(* Synchronous operations.                                                 *)

\* The ad-hoc pattern a findMatchingTests call hands to the filtering pass.
PassedPattern(pat) == IF IsExplicitFile(pat) THEN Undefined ELSE pat

FilterWithStats(pat) ==
    /\ lastCall' = [NoCall EXCEPT !.op = "filter", !.cands = candidates,
                                  !.pat = pat,
                                  !.result = FilterTestPathsWithStats(candidates, pat)]
    /\ testPathCases' = InstanceCasesAfter(pat)
    /\ adHocSeen' = (adHocSeen \/ (Truthy(pat) /\ RegExpValid(pat.src)))
    /\ calls' = NoCalls
    /\ UNCHANGED <<config, regexps, hasteFiles, candidates, asyncVars>>

FilterAgain ==
    /\ lastCall.op = "filter"
    /\ lastCall' = [lastCall EXCEPT !.op = "filterAgain",
                        !.second = FilterTestPathsWithStats(lastCall.cands, lastCall.pat)]
    /\ testPathCases' = InstanceCasesAfter(lastCall.pat)
    /\ calls' = NoCalls
    /\ UNCHANGED <<config, regexps, hasteFiles, candidates, adHocSeen, asyncVars>>

IsTestFilePathCall(p) ==
    /\ lastCall' = [NoCall EXCEPT !.op = "isTestFilePath", !.path = p,
                                  !.value = IsTestFilePath(p)]
    /\ calls' = NoCalls
    /\ UNCHANGED <<config, regexps, hasteFiles, testPathCases, candidates, adHocSeen, asyncVars>>

FindMatchingTestsCall(pat) ==
    /\ lastCall' = [NoCall EXCEPT !.op = "findMatchingTests", !.pat = pat,
                                  !.result = FindMatchingTests(pat)]
    /\ testPathCases' = InstanceCasesAfter(PassedPattern(pat))
    /\ adHocSeen' = (adHocSeen \/ (Truthy(PassedPattern(pat)) /\ RegExpValid(pat.src)))
    /\ calls' = FindMatchingCalls(pat)
    /\ UNCHANGED <<config, regexps, hasteFiles, candidates, asyncVars>>

-----------------------------------------------------------------------------
(* getTestPaths and findChangedTests.                                      *)

DispatchPatternFirst(req) ==
    IF req.testPathPattern.kind # "undefined" THEN "pattern"
    ELSE IF req.onlyChanged THEN "changed"
    ELSE "empty"

\* The branch getTestPaths takes.
Dispatch(req) ==
    IF req.onlyChanged THEN "changed"
    ELSE IF req.testPathPattern.kind # "undefined" THEN "pattern"
    ELSE "empty"

\* Promise.all(this._config.testPathDirs.map(determineSCM)): every query issued.
StartDetection(req) ==
    /\ pc' = "detecting"
    /\ request' = req
    /\ gitQ' = [r \in Roots |-> "pending"]
    /\ hgQ' = [r \in Roots |-> "pending"]
    /\ chgQ' = [r \in Roots |-> NoQuery]
    /\ outcome' = NoResult
    /\ calls' = [NoCalls EXCEPT !.detections = 2 * Cardinality(Roots)]

GetTestPaths(req) ==
    /\ pc = "idle"
    /\ IF Dispatch(req) = "changed"
       THEN /\ StartDetection(req)
            /\ UNCHANGED <<config, regexps, hasteFiles, syncVars>>
       ELSE /\ IF Dispatch(req) = "pattern"
               THEN /\ lastCall' = [NoCall EXCEPT !.op = "getTestPaths",
                                        !.req = req,
                                        !.pat = req.testPathPattern,
                                        !.result = FindMatchingTests(req.testPathPattern)]
                    /\ testPathCases' =
                           InstanceCasesAfter(PassedPattern(req.testPathPattern))
                    /\ adHocSeen' =
                           (adHocSeen \/ (Truthy(PassedPattern(req.testPathPattern))
                                           /\ RegExpValid(req.testPathPattern.src)))
                    /\ calls' = FindMatchingCalls(req.testPathPattern)
               ELSE /\ lastCall' = [NoCall EXCEPT !.op = "getTestPaths",
                                        !.req = req,
                                        !.result = PathsOnly(<<>>)]
                    /\ calls' = NoCalls
                    /\ UNCHANGED <<testPathCases, adHocSeen>>
            /\ UNCHANGED <<config, regexps, hasteFiles, candidates, asyncVars>>

FindChangedTests(lastCommit) ==
    /\ pc = "idle"
    /\ StartDetection([via |-> "findChangedTests", onlyChanged |-> FALSE,
                       testPathPattern |-> Undefined, lastCommit |-> lastCommit])
    /\ UNCHANGED <<config, regexps, hasteFiles, syncVars>>

MasksFailure(o) == FALSE

\* Promise.all rejects as soon as one of its promises rejects.
PropagatesFailure(o) == o = "failed"

\* The composite promise is rejected by the first failure only.
Settle(phase, o, err) ==
    IF PropagatesFailure(o) /\ pc = phase
    THEN pc' = "rejected" /\ outcome' = Threw(err)
    ELSE UNCHANGED <<pc, outcome>>

GitDetected(r, o) ==
    /\ gitQ[r] = "pending"
    /\ gitQ' = [gitQ EXCEPT ![r] = o]
    /\ Settle("detecting", o, [q |-> "isGitRepository", root |-> r])
    /\ UNCHANGED <<config, regexps, hasteFiles, syncVars, calls, request, hgQ, chgQ>>

HgDetected(r, o) ==
    /\ hgQ[r] = "pending"
    /\ hgQ' = [hgQ EXCEPT ![r] = o]
    /\ Settle("detecting", o, [q |-> "isHGRepository", root |-> r])
    /\ UNCHANGED <<config, regexps, hasteFiles, syncVars, calls, request, gitQ, chgQ>>

Managed(r) == gitQ[r] = "yes" \/ hgQ[r] = "yes"

EagerlyDecidable ==
    \/ \A r \in Roots : gitQ[r] # "pending" /\ hgQ[r] # "pending"
    \/ \E r \in Roots : gitQ[r] = "no" /\ hgQ[r] = "no"

\* Promise.all(...).then: every determineSCM of every root has settled.
AllDetected == \A r \in Roots : gitQ[r] # "pending" /\ hgQ[r] # "pending"

SomeRootManaged == Roots = {} \/ \E r \in Roots : Managed(r)

\* repos.every(([gitRepo, hgRepo]) => gitRepo || hgRepo)
EveryRootManaged == \A r \in Roots : Managed(r)

DecideSCM ==
    /\ pc = "detecting"
    /\ AllDetected
    /\ IF ~EveryRootManaged
       THEN /\ pc' = "resolved"
            /\ outcome' = NoSCMResult
            /\ UNCHANGED <<chgQ, calls>>
       ELSE /\ pc' = "fetching"
            /\ chgQ' = [r \in Roots |->
                          [status |-> "pending",
                           scm |-> IF gitQ[r] = "yes" THEN "git" ELSE "hg",
                           lastCommit |-> request.lastCommit,
                           files |-> {}]]
            /\ calls' = [calls EXCEPT !.changedQueries = @ + Cardinality(Roots)]
            /\ UNCHANGED outcome
    /\ UNCHANGED <<config, regexps, hasteFiles, syncVars, request, gitQ, hgQ>>

ChangedFilesFound(r, files) ==
    /\ chgQ[r].status = "pending"
    /\ chgQ' = [chgQ EXCEPT ![r].status = "done", ![r].files = files]
    /\ UNCHANGED <<config, regexps, hasteFiles, syncVars, calls, pc, request, gitQ, hgQ, outcome>>

ChangedFilesFailed(r) ==
    /\ chgQ[r].status = "pending"
    /\ chgQ' = [chgQ EXCEPT ![r].status = "failed"]
    /\ Settle("fetching", "failed", [q |-> "findChangedFiles", root |-> r])
    /\ UNCHANGED <<config, regexps, hasteFiles, syncVars, calls, request, gitQ, hgQ>>

\* new Set(Array.prototype.concat.apply([], changedPathSets))
ChangedPaths == UNION {chgQ[r].files : r \in Roots}

RelateTests(ok) ==
    /\ pc = "fetching"
    /\ \A r \in Roots : chgQ[r].status = "done"
    /\ calls' = [calls EXCEPT !.resolveInverse = @ + 1, !.resolveFailed = ~ok]
    /\ IF ok
       THEN pc' = "resolved" /\ outcome' = FindRelatedTests(ChangedPaths)
       ELSE pc' = "rejected"
            /\ outcome' = Threw([q |-> "resolveInverse", root |-> 0])
    /\ UNCHANGED <<config, regexps, hasteFiles, syncVars, request, gitQ, hgQ, chgQ>>

-----------------------------------------------------------------------------
(* Specifications.                                                         *)

InitCommon ==
    /\ testPathCases = ConstructedCases
    /\ lastCall = NoCall
    /\ adHocSeen = FALSE
    /\ calls = NoCalls
    /\ pc = "idle"
    /\ request = NoRequest
    /\ gitQ = [r \in Roots |-> "none"]
    /\ hgQ = [r \in Roots |-> "none"]
    /\ chgQ = [r \in Roots |-> NoQuery]
    /\ outcome = NoResult

Init ==
    /\ config \in Configs
    /\ regexps = ConstructedRegexps(config)
    /\ hasteFiles = FullUniverse
    /\ candidates \in SeqsUpTo(PathInputs, MaxCand)
    /\ InitCommon

Next ==
    \/ \E pat \in PatternInputs : FilterWithStats(pat)
    \/ FilterAgain
    \/ \E p \in PathInputs : IsTestFilePathCall(p)
    \/ \E pat \in PatternInputs : FindMatchingTestsCall(pat)

Spec == Init /\ [][Next]_vars

InitLookup ==
    /\ config \in Configs
    /\ regexps = ConstructedRegexps(config)
    /\ hasteFiles \in Universes
    /\ candidates = <<>>
    /\ InitCommon

NextLookup ==
    \/ \E pat \in PatternInputs : FindMatchingTestsCall(pat)
    \/ \E req \in LookupRequests : GetTestPaths(req)
    \/ \E p \in PathInputs : IsTestFilePathCall(p)

SpecLookup == InitLookup /\ [][NextLookup]_vars

InitChanged ==
    /\ config \in ChangedConfigs
    /\ regexps = ConstructedRegexps(config)
    /\ hasteFiles = FullUniverse
    /\ candidates = <<>>
    /\ InitCommon

NextChanged ==
    \/ \E req \in Requests : GetTestPaths(req)
    \/ \E lc \in BOOLEAN : FindChangedTests(lc)
    \/ \E r \in Roots, o \in {"yes", "no", "failed"} : GitDetected(r, o)
    \/ \E r \in Roots, o \in {"yes", "no", "failed"} : HgDetected(r, o)
    \/ DecideSCM
    \/ \E r \in Roots, files \in ChangedSets : ChangedFilesFound(r, files)
    \/ \E r \in Roots : ChangedFilesFailed(r)
    \/ \E ok \in BOOLEAN : RelateTests(ok)

SpecChanged == InitChanged /\ [][NextChanged]_vars

-----------------------------------------------------------------------------
(* What the criteria mean, stated on the configuration itself: every       *)
(* configured pattern of the model is a literal, so "matches" is           *)
(* "contains".  The filtering pass reaches the same answers only through   *)
(* escaping, joining with "|", compiling and test().                       *)

\* An empty testPathDirs list compiles to the empty pattern, which matches.
MatchesRootPattern(p) ==
    \/ config.testPathDirs = <<>>
    \/ \E i \in DOMAIN config.testPathDirs : Contains(p, config.testPathDirs[i])

MatchesTestRegex(p) == Contains(p, config.testRegex)

MatchesNoIgnorePattern(p) ==
    \A i \in DOMAIN config.testPathIgnorePatterns :
        ~Contains(p, config.testPathIgnorePatterns[i])

FixedCriteriaHold(p) ==
    MatchesRootPattern(p) /\ MatchesTestRegex(p) /\ MatchesNoIgnorePattern(p)

CriterionHolds(c, p, pat) ==
    CASE c = "testPathDirs" -> MatchesRootPattern(p)
      [] c = "testRegex" -> MatchesTestRegex(p)
      [] c = "testPathIgnorePatterns" -> MatchesNoIgnorePattern(p)
      [] c = "testPathPattern" -> Contains(p, pat.src)

ActiveCriteria(pat) ==
    Range(FixedKeys) \cup (IF Truthy(pat) THEN {"testPathPattern"} ELSE {})

AllCriteriaHold(p, pat) == \A c \in ActiveCriteria(pat) : CriterionHolds(c, p, pat)

CountHolding(cands, c, pat) ==
    Cardinality({i \in DOMAIN cands : CriterionHolds(c, cands[i], pat)})

FilterReturned ==
    lastCall.op \in {"filter", "filterAgain"} /\ lastCall.result.kind = "result"

-----------------------------------------------------------------------------
\* C1: in every reachable state, whatever findMatchingTests / filterWithStats
\* calls came before (with or without an ad-hoc pattern), isTestFilePath(p)
\* is true iff p matches the root-directory pattern, matches the test regex
\* and matches none of the ignore patterns; the ad-hoc criterion of an
\* earlier call takes no part in it.
C1_IsTestFilePathIsTheFixedCriteria ==
    /\ \A p \in PathInputs \cup OnDisk : IsTestFilePath(p) <=> FixedCriteriaHold(p)
    /\ lastCall.op = "isTestFilePath"
          => (lastCall.value <=> FixedCriteriaHold(lastCall.path))

\* C1 witness: isTestFilePath answered true after a call that compiled an
\* ad-hoc pattern.
C1_Witness ==
    /\ lastCall.op = "isTestFilePath"
    /\ adHocSeen
    /\ lastCall.value
    /\ lastCall.path = FileParenT

\* C2 as stated: after filterWithStats returns, total is the number of
\* candidates and every active criterion c has stats[c] <= total and stats[c]
\* equal to the number of candidates for which c alone holds.
C2_StatsCountEveryActiveCriterion ==
    FilterReturned =>
        /\ lastCall.result.hasTotal
        /\ lastCall.result.total = Len(lastCall.cands)
        /\ \A c \in ActiveCriteria(lastCall.pat) :
              /\ c \in DOMAIN lastCall.result.stats
              /\ lastCall.result.stats[c] <= lastCall.result.total
              /\ lastCall.result.stats[c] =
                    CountHolding(lastCall.cands, c, lastCall.pat)

\* C2 amended: total is always the number of candidates; for a non-empty
\* candidate sequence stats has exactly the active criteria as keys, each
\* counting the candidates for which that criterion alone holds (<= total);
\* for an empty candidate sequence no criterion is evaluated and stats has
\* no entry at all.
C2_StatsCountWhenCandidatesNonEmpty ==
    FilterReturned =>
        /\ lastCall.result.hasTotal
        /\ lastCall.result.total = Len(lastCall.cands)
        /\ lastCall.cands = <<>> => DOMAIN lastCall.result.stats = {}
        /\ lastCall.cands # <<>> =>
              /\ DOMAIN lastCall.result.stats = ActiveCriteria(lastCall.pat)
              /\ \A c \in ActiveCriteria(lastCall.pat) :
                    /\ lastCall.result.stats[c] <= lastCall.result.total
                    /\ lastCall.result.stats[c] =
                          CountHolding(lastCall.cands, c, lastCall.pat)

\* C2 witness: two candidates that both fail the first criterion are still
\* counted by the criteria after it, and none is selected.
C2_Witness ==
    /\ lastCall.op = "filter"
    /\ lastCall.result.kind = "result"
    /\ Len(lastCall.cands) = 2
    /\ lastCall.result.paths = <<>>
    /\ DOMAIN lastCall.result.stats = Range(FixedKeys) \cup {"testPathPattern"}
    /\ lastCall.result.stats["testPathDirs"] = 0
    /\ lastCall.result.stats["testRegex"] = 2
    /\ lastCall.result.stats["testPathIgnorePatterns"] = 1
    /\ lastCall.result.stats["testPathPattern"] = 2

\* C7: a second filterWithStats with the same candidates and the same ad-hoc
\* pattern yields the same paths in the same order, the same stats and the
\* same total (the same outcome) as the first.
C7_SecondPassEqualsFirst ==
    lastCall.op = "filterAgain" => lastCall.second = lastCall.result

\* C7 witness: a repeated pass that selected something and counted something.
C7_Witness ==
    /\ lastCall.op = "filterAgain"
    /\ lastCall.second.kind = "result"
    /\ Len(lastCall.second.paths) = 2
    /\ "testPathPattern" \in DOMAIN lastCall.second.stats
    /\ lastCall.second.stats["testPathPattern"] = 2

\* C9: the paths filterWithStats returns are exactly the candidates for which
\* all active criteria hold, in input order; with no ad-hoc pattern they are
\* the candidates for which the short-circuiting isTestFilePath is true.
C9_PathsAreTheConjunction ==
    FilterReturned =>
        /\ lastCall.result.paths =
              SelectSeq(lastCall.cands, LAMBDA p : AllCriteriaHold(p, lastCall.pat))
        /\ ~Truthy(lastCall.pat) =>
              lastCall.result.paths = SelectSeq(lastCall.cands, IsTestFilePath)

\* C9 witness: the first candidate fails an earlier criterion although the
\* last criterion holds for it, and only the second candidate is returned.
C9_Witness ==
    /\ lastCall.op = "filter"
    /\ lastCall.result.kind = "result"
    /\ Len(lastCall.cands) = 2
    /\ lastCall.result.paths = <<lastCall.cands[2]>>
    /\ lastCall.cands[1] # lastCall.cands[2]
    /\ "testPathPattern" \in DOMAIN lastCall.result.stats
    /\ lastCall.result.stats["testPathPattern"] = 2

-----------------------------------------------------------------------------
LookupReturned ==
    \/ lastCall.op = "findMatchingTests"
    \/ lastCall.op = "getTestPaths" /\ lastCall.req.testPathPattern.kind # "undefined"

StringInput == lastCall.pat.kind = "string" /\ lastCall.pat.src # <<>>

ExistsOnDisk(f) == f \in OnDisk \/ f \in Range(hasteFiles)

\* C5 as stated: an explicit-file lookup of an existing file returns exactly
\* that path with total = 1, whichever fixed criteria the file satisfies.
C5_ExplicitFileAlwaysReturned ==
    (LookupReturned /\ StringInput /\ ExistsOnDisk(PathResolve(lastCall.pat.src))) =>
        /\ lastCall.result.kind = "result"
        /\ lastCall.result.paths = <<PathResolve(lastCall.pat.src)>>
        /\ lastCall.result.hasTotal
        /\ lastCall.result.total = 1

\* C5 amended: an explicit-file lookup of an existing file filters that one
\* path through the three fixed criteria (never the input as a pattern):
\* total = 1, stats holds the single-candidate counts of the three fixed
\* criteria, and paths is that one resolved path when the file satisfies all
\* three fixed criteria and empty otherwise.
C5_ExplicitFileIsFiltered ==
    (LookupReturned /\ StringInput /\ ExistsOnDisk(PathResolve(lastCall.pat.src))) =>
        LET file == PathResolve(lastCall.pat.src)
        IN /\ lastCall.result.kind = "result"
           /\ lastCall.result.hasTotal
           /\ lastCall.result.total = 1
           /\ DOMAIN lastCall.result.stats = Range(FixedKeys)
           /\ \A c \in Range(FixedKeys) :
                 lastCall.result.stats[c] =
                    (IF CriterionHolds(c, file, Undefined) THEN 1 ELSE 0)
           /\ lastCall.result.paths =
                 (IF FixedCriteriaHold(file) THEN <<file>> ELSE <<>>)
           /\ calls.getAllFiles = 0

\* C5 witness: the explicit file is a test file under the configuration and
\* is returned, although the input, read as a pattern, matches other files.
C5_Witness ==
    /\ lastCall.op = "findMatchingTests"
    /\ lastCall.pat = Str(<<"t">>)
    /\ hasteFiles = FullUniverse
    /\ lastCall.result.paths = <<FileRT>>
    /\ lastCall.result.total = 1

\* C10 as stated: a non-empty string input that resolves to no existing file
\* raises no error; the result is the filtering pass over the whole universe
\* with the input as ad-hoc criterion: total = size of the universe, and a
\* testPathPattern entry in stats when the universe is non-empty.
C10_MissingFileNeverRaises ==
    (LookupReturned /\ StringInput /\ ~ExistsOnDisk(PathResolve(lastCall.pat.src))) =>
        /\ lastCall.result.kind = "result"
        /\ lastCall.result.hasTotal
        /\ lastCall.result.total = Len(hasteFiles)
        /\ hasteFiles # <<>> => "testPathPattern" \in DOMAIN lastCall.result.stats

\* C10 amended: the missing file itself raises nothing and the call falls
\* through to pattern search; when the input compiles as a regular expression
\* the result is the filtering pass over the whole universe with the input as
\* ad-hoc criterion (total = size of the universe, a testPathPattern entry
\* when the universe is non-empty); when it does not compile, the RegExp
\* constructor's SyntaxError is what the call raises.
C10_MissingFileFallsThroughToPattern ==
    (LookupReturned /\ StringInput /\ ~ExistsOnDisk(PathResolve(lastCall.pat.src))) =>
        /\ calls.fileExists = 1
        /\ calls.getAllFiles = 1
        /\ RegExpValid(lastCall.pat.src) =>
              /\ lastCall.result.kind = "result"
              /\ lastCall.result.hasTotal
              /\ lastCall.result.total = Len(hasteFiles)
              /\ hasteFiles # <<>> =>
                    /\ DOMAIN lastCall.result.stats =
                          Range(FixedKeys) \cup {"testPathPattern"}
                    /\ lastCall.result.stats["testPathPattern"] =
                          CountHolding(hasteFiles, "testPathPattern", lastCall.pat)
              /\ lastCall.result.paths =
                    SelectSeq(hasteFiles, LAMBDA p : AllCriteriaHold(p, lastCall.pat))
        /\ ~RegExpValid(lastCall.pat.src) =>
              /\ lastCall.result.kind = "threw"
              /\ lastCall.result.error = SyntaxError

\* C10 witness: the input names no file and selects, as a pattern, one file
\* of a universe of four.
C10_Witness ==
    /\ lastCall.op = "findMatchingTests"
    /\ lastCall.pat = Str(<<"n">>)
    /\ lastCall.result.kind = "result"
    /\ lastCall.result.total = 4
    /\ lastCall.result.paths = <<FileRTN>>
    /\ lastCall.result.stats["testPathPattern"] = 1

-----------------------------------------------------------------------------
Unmanaged(r) == gitQ[r] = "no" /\ hgQ[r] = "no"

DetectionPending == \E r \in Roots : gitQ[r] = "pending" \/ hgQ[r] = "pending"

NoChangedQueryIssued == \A r \in Roots : chgQ[r].status = "none"

AnyQueryFailed ==
    \/ \E r \in Roots : gitQ[r] = "failed" \/ hgQ[r] = "failed"
    \/ \E r \in Roots : chgQ[r].status = "failed"
    \/ calls.resolveFailed

FailureHappened(err) ==
    \/ err.q = "isGitRepository" /\ err.root \in Roots /\ gitQ[err.root] = "failed"
    \/ err.q = "isHGRepository" /\ err.root \in Roots /\ hgQ[err.root] = "failed"
    \/ /\ err.q = "findChangedFiles"
       /\ err.root \in Roots
       /\ chgQ[err.root].status = "failed"
    \/ err.q = "resolveInverse" /\ calls.resolveFailed

\* What changed-files selection answers, from what the collaborators answered.
ExpectedChangedOutcome ==
    IF \E r \in Roots : Unmanaged(r)
    THEN NoSCMResult
    ELSE PathsOnly(SelectSeq(FileOrder,
             LAMBDA f : /\ f \in Dependents(ChangedPaths, Cardinality(Requires))
                        /\ FixedCriteriaHold(f)))

\* C3: once some root is identified as neither git nor hg, no changed-files
\* query is issued for any root, the dependency resolver is not invoked, and
\* a result, if one is returned, is noSCM = true with empty paths, even when
\* the other roots are managed; noSCM is never set when every root is managed.
C3_NoSCMWhenAnyRootUnmanaged ==
    /\ (\E r \in Roots : Unmanaged(r)) =>
          /\ NoChangedQueryIssued
          /\ calls.changedQueries = 0
          /\ calls.resolveInverse = 0
          /\ pc = "resolved" => outcome = NoSCMResult
    /\ (pc = "resolved" /\ outcome.noSCM) => \E r \in Roots : Unmanaged(r)
    /\ (pc = "resolved" /\ \A r \in Roots : Managed(r)) => ~outcome.noSCM

\* C3 witness: noSCM returned with one root unmanaged and another managed.
C3_Witness ==
    /\ pc = "resolved"
    /\ outcome.noSCM
    /\ outcome.paths = <<>>
    /\ \E r \in Roots : Unmanaged(r)
    /\ \E r \in Roots : Managed(r)

\* C4: a getTestPaths request with onlyChanged set and a testPathPattern runs
\* changed-files selection only: no explicit-file existence check, no
\* enumeration of the file universe, and the result is what changed-files
\* selection gives from the collaborators' answers, the pattern playing no part.
C4_OnlyChangedWinsOverPattern ==
    /\ lastCall.op = "getTestPaths" => ~lastCall.req.onlyChanged
    /\ (request.via = "getTestPaths" /\ request.testPathPattern.kind # "undefined") =>
          /\ request.onlyChanged
          /\ pc # "idle"
          /\ calls.fileExists = 0
          /\ calls.getAllFiles = 0
          /\ pc = "resolved" => outcome = ExpectedChangedOutcome

\* C4 witness: a request with onlyChanged and the pattern "s" resolved with a
\* related test that the pattern does not match.
C4_Witness ==
    /\ request.via = "getTestPaths"
    /\ request.onlyChanged
    /\ request.testPathPattern = Str(<<"s">>)
    /\ pc = "resolved"
    /\ outcome.paths = <<FileRT>>

\* C6: findChangedTests never resolves with a SearchResult when a delegated
\* query failed: a failed SCM-detection query, changed-files query or
\* dependency resolution rejects the returned promise with a failure that
\* happened, no query is issued twice, and no result is built.
C6_FailuresPropagate ==
    /\ AnyQueryFailed =>
          /\ pc = "rejected"
          /\ outcome.kind = "threw"
          /\ outcome.paths = <<>>
    /\ pc = "rejected" => outcome.kind = "threw" /\ FailureHappened(outcome.error)
    /\ pc = "resolved" => outcome.kind = "result" /\ ~AnyQueryFailed
    /\ calls.detections <= 2 * Cardinality(Roots)
    /\ calls.changedQueries <= Cardinality(Roots)
    /\ calls.resolveInverse <= 1

\* C6 witness: one root's changed-files query failed after another root had
\* answered with changed files; the promise is rejected with that failure.
C6_Witness ==
    /\ pc = "rejected"
    /\ outcome.error.q = "findChangedFiles"
    /\ \E r \in Roots : chgQ[r].status = "done" /\ chgQ[r].files # {}

\* C8: while any root's git or hg detection is pending, no result is returned
\* and no changed-files query is issued; the dependency resolver is invoked
\* only after the changed-files queries of all roots have completed.
C8_DecisionWaitsForEveryRoot ==
    /\ DetectionPending => (pc # "resolved" /\ NoChangedQueryIssued)
    /\ pc = "fetching" => ~DetectionPending
    /\ calls.resolveInverse > 0 => \A r \in Roots : chgQ[r].status = "done"

\* C8 witness: a later root is already known to be unmanaged while an earlier
\* root's detection is pending, and the operation is still waiting.
C8_Witness ==
    /\ pc = "detecting"
    /\ \E r1, r2 \in Roots :
          /\ r1 < r2
          /\ Unmanaged(r2)
          /\ gitQ[r1] = "pending"
          /\ hgQ[r1] = "pending"

====
